---- MODULE Spec2Model ----
(***************************************************************************)
(* Planner buffer pool of bbctrl-firmware (src/plan/planner.c): the ring   *)
(* of move buffers shared by the foreground producer and the interrupt     *)
(* level consumer, the command and dwell handlers built on it, and the     *)
(* planner flush; the position layers and the step state set from the      *)
(* runtime position; and the axis to motor map of src/avr/src/axis.c.      *)
(***************************************************************************)
EXTENDS Naturals, Integers, Sequences, FiniteSets, TLC

\* ------------------------------------------------------------------ bounds
\* Number of buffers in the ring (PLANNER_BUFFER_POOL_SIZE of planner.h).
PLANNER_BUFFER_POOL_SIZE == 3
\* Payload values a caller may write into a buffer are 1..MaxVal; positions, step
\* counts and axis limits are 0..MaxVal.
MaxVal == 1
\* Number of motors and of axes (MOTORS and AXES of config.h).
MOTORS == 2
AXES == 2

\* ------------------------------------------------------------- vocabulary
\* The null pointer; buffers are named by their index in mb.bf.
NULL == 0 - 1

MP_BUFFER_EMPTY == "EMPTY"
MP_BUFFER_LOADING == "LOADING"
MP_BUFFER_QUEUED == "QUEUED"
MP_BUFFER_PENDING == "PENDING"
MP_BUFFER_RUNNING == "RUNNING"

MOVE_TYPE_NULL == "MOVE_TYPE_NULL"
MOVE_TYPE_ALINE == "MOVE_TYPE_ALINE"
MOVE_TYPE_DWELL == "MOVE_TYPE_DWELL"
MOVE_TYPE_COMMAND == "MOVE_TYPE_COMMAND"

MOVE_OFF == "MOVE_OFF"
MOVE_NEW == "MOVE_NEW"

MOTION_STOP == "MOTION_STOP"
MOTION_RUN == "MOTION_RUN"

STAT_OK == "STAT_OK"
STAT_BUFFER_FULL_FATAL == "STAT_BUFFER_FULL_FATAL"

\* Function pointers stored in a buffer: 0 after a memset.
FN_NULL == "0"
FN_EXEC_COMMAND == "_exec_command"
FN_EXEC_DWELL == "_exec_dwell"
FN_CM_EXEC == "cm_exec"

Buffers == 0 .. (PLANNER_BUFFER_POOL_SIZE - 1)
\* Commits in one run of the model: enough to wrap the ring.
MaxCommits == PLANNER_BUFFER_POOL_SIZE + 1
Values == 1 .. MaxVal
Motors == 0 .. (MOTORS - 1)
Axes == 0 .. (AXES - 1)
AXIS_X == 0
ActiveStates == {MP_BUFFER_LOADING, MP_BUFFER_QUEUED, MP_BUFFER_PENDING, MP_BUFFER_RUNNING}

\* uint8_t arithmetic of mb.buffers_available.
Inc8(x) == (x + 1) % 256
Dec8(x) == (x + 255) % 256

\* ------------------------------------------------------------------ state
VARIABLES
  mb,            \* the buffer pool: bf, w, q, r, buffers_available
  run_bf,        \* buffer the consumer got from mp_get_run_buffer and has not freed
  st_bf,         \* buffer handed to the stepper by _exec_command (st_prep_command)
  cm,            \* canonical machine: motion_state
  lastOp,        \* name of the last operation
  lastRet,       \* what the last operation returned
  ev,            \* what the last operation did outside the pool: exec request, promotion,
                 \* stepper, cm_exec, cycle end, abort arc, alarm
  outstanding,   \* buffers got by mp_get_write_buffer and neither committed nor ungot
  snap,          \* the pool before the last mp_get_write_buffer, while it is the last operation
  hist,          \* commits and promotions so far, and whether a flush happened
  mm,            \* planning context: position per axis
  mr,            \* runtime context: position, target and endpoint per axis, step state per motor
  prod,          \* where the foreground stands inside a pool function it has not finished
  en,            \* encoders: encoder_steps per motor
  st_pre,        \* stepper prep: mot[motor].corrected_steps
  motor,         \* motor configuration: axis and enabled per motor
  motor_map,     \* axis.c: the motor of each axis, -1 for none
  axes           \* axis.c: velocity_max, accel_max and jerk_max, one entry per motor

vars ==
  <<mb, run_bf, st_bf, cm, lastOp, lastRet, ev, outstanding, snap, hist, mm, mr, prod,
    en, st_pre, motor, motor_map, axes>>

\* ---------------------------------------------------------- pool functions
\* #define _bump(a)
bump(a) == IF a < PLANNER_BUFFER_POOL_SIZE - 1 THEN a + 1 ELSE 0

\* A buffer after memset(bf, 0, sizeof(mpBuf_t)).
ZeroBuf ==
  [nx |-> NULL, pv |-> NULL, buffer_state |-> MP_BUFFER_EMPTY,
   move_type |-> MOVE_TYPE_NULL, move_state |-> MOVE_OFF,
   bf_func |-> FN_NULL, cm_func |-> FN_NULL, payload |-> 0]

\* mp_clear_buffer: zero the buffer, keep its links.
mp_clear_buffer(b) == [ZeroBuf EXCEPT !.nx = b.nx, !.pv = b.pv]

\* mp_init_buffers: zero the pool, point w, q, r at bf[0], link the ring.
InitNoMemset(m) ==
  [bf |-> [i \in Buffers |->
             [m.bf[i] EXCEPT !.nx = bump(i),
                             !.pv = IF i = 0 THEN PLANNER_BUFFER_POOL_SIZE - 1 ELSE i - 1]],
   w |-> 0, q |-> 0, r |-> 0,
   buffers_available |-> PLANNER_BUFFER_POOL_SIZE]
mp_init_buffers(m) ==
  [bf |-> [i \in Buffers |->
             [ZeroBuf EXCEPT !.nx = bump(i),
                             !.pv = IF i = 0 THEN PLANNER_BUFFER_POOL_SIZE - 1 ELSE i - 1]],
   w |-> 0, q |-> 0, r |-> 0,
   buffers_available |-> PLANNER_BUFFER_POOL_SIZE]

\* mp_get_write_buffer: [mb: the pool afterwards, ret: the buffer or NULL].
GetWriteNoCheck(m) ==
  [mb |-> [m EXCEPT !.bf[m.w] = [mp_clear_buffer(@) EXCEPT !.buffer_state = MP_BUFFER_LOADING],
                    !.buffers_available = Dec8(@),
                    !.w = m.bf[m.w].nx],
   ret |-> m.w]
mp_get_write_buffer(m) ==
  IF m.bf[m.w].buffer_state = MP_BUFFER_EMPTY
  THEN [mb |-> [m EXCEPT !.bf[m.w] = [mp_clear_buffer(@) EXCEPT !.buffer_state = MP_BUFFER_LOADING],
                         !.buffers_available = Dec8(@),
                         !.w = m.bf[m.w].nx],
        ret |-> m.w]
  ELSE [mb |-> m, ret |-> NULL]

\* mp_unget_write_buffer.
UngetAtWrite(m) ==
  [m EXCEPT !.bf[m.w].buffer_state = MP_BUFFER_EMPTY,
            !.buffers_available = Inc8(@)]
mp_unget_write_buffer(m) ==
  LET w == m.bf[m.w].pv
  IN  [m EXCEPT !.w = w,
                !.bf[w].buffer_state = MP_BUFFER_EMPTY,
                !.buffers_available = Inc8(@)]

\* mp_commit_write_buffer, lines 330-333: the writes made before the exec request.
CommitQueue(m, move_type) ==
  [m EXCEPT !.bf[m.q].move_type = move_type,
            !.bf[m.q].move_state = MOVE_NEW,
            !.bf[m.q].buffer_state = MP_BUFFER_QUEUED,
            !.q = m.bf[m.q].nx]

\* mp_get_run_buffer: [mb, ret].
GetRunOnce(m) ==
  IF m.bf[m.r].buffer_state \in {MP_BUFFER_QUEUED, MP_BUFFER_PENDING}
  THEN [mb |-> [m EXCEPT !.bf[m.r].buffer_state = MP_BUFFER_RUNNING], ret |-> m.r]
  ELSE [mb |-> m, ret |-> NULL]
GetRunAnyActive(m) ==
  LET m1 == IF m.bf[m.r].buffer_state \in {MP_BUFFER_LOADING, MP_BUFFER_QUEUED, MP_BUFFER_PENDING}
            THEN [m EXCEPT !.bf[m.r].buffer_state = MP_BUFFER_RUNNING]
            ELSE m
  IN  [mb |-> m1,
       ret |-> IF m1.bf[m1.r].buffer_state = MP_BUFFER_RUNNING THEN m1.r ELSE NULL]
mp_get_run_buffer(m) ==
  LET m1 == IF m.bf[m.r].buffer_state \in {MP_BUFFER_QUEUED, MP_BUFFER_PENDING}
            THEN [m EXCEPT !.bf[m.r].buffer_state = MP_BUFFER_RUNNING]
            ELSE m
  IN  [mb |-> m1,
       ret |-> IF m1.bf[m1.r].buffer_state = MP_BUFFER_RUNNING THEN m1.r ELSE NULL]

\* mp_free_run_buffer: [mb, ret], ret the uint8_t value of mb.w == mb.r.
FreeSkipsNext(m) ==
  LET r2 == m.bf[m.bf[m.r].nx].nx
      m1 == [m EXCEPT !.bf[m.r] = mp_clear_buffer(@), !.r = r2]
      m2 == IF m1.bf[r2].buffer_state = MP_BUFFER_QUEUED
            THEN [m1 EXCEPT !.bf[r2].buffer_state = MP_BUFFER_PENDING]
            ELSE m1
      m3 == [m2 EXCEPT !.buffers_available = Inc8(@)]
  IN  [mb |-> m3, ret |-> IF m3.w = m3.r THEN 1 ELSE 0]
FreeLeavesRunning(m) ==
  LET r2 == m.bf[m.r].nx
      m1 == [m EXCEPT !.r = r2]
      m2 == IF m1.bf[r2].buffer_state = MP_BUFFER_QUEUED
            THEN [m1 EXCEPT !.bf[r2].buffer_state = MP_BUFFER_PENDING]
            ELSE m1
      m3 == [m2 EXCEPT !.buffers_available = Inc8(@)]
  IN  [mb |-> m3, ret |-> IF m3.w = m3.r THEN 1 ELSE 0]
mp_free_run_buffer(m) ==
  LET r2 == m.bf[m.r].nx
      m1 == [m EXCEPT !.bf[m.r] = mp_clear_buffer(@), !.r = r2]
      m2 == IF m1.bf[r2].buffer_state = MP_BUFFER_QUEUED
            THEN [m1 EXCEPT !.bf[r2].buffer_state = MP_BUFFER_PENDING]
            ELSE m1
      m3 == [m2 EXCEPT !.buffers_available = Inc8(@)]
  IN  [mb |-> m3, ret |-> IF m3.w = m3.r THEN 1 ELSE 0]

\* ------------------------------------------------- what an operation sees
\* The part of the state the planner and the consumer handlers work on.
Ctx ==
  [mb |-> mb, run_bf |-> run_bf, st_bf |-> st_bf, cm |-> cm,
   ev |-> ev, hist |-> hist, mm |-> mm, mr |-> mr,
   en |-> en, st_pre |-> st_pre, motor |-> motor]

NoReq == [made |-> FALSE, bf |-> NULL, state |-> MP_BUFFER_EMPTY, type |-> MOVE_TYPE_NULL, q |-> NULL]
NoEv ==
  [req |-> NoReq, promoted |-> FALSE, cycle_end |-> FALSE, cm_exec |-> 0, abort_arc |-> FALSE,
   st_dwell |-> 0,
   alarm |-> STAT_OK, stat |-> STAT_OK, trail |-> << >>,
   cm_queued |-> 0, cm_again |-> FALSE]
\* Every operation starts with nothing called out yet.
Fresh(c) == [c EXCEPT !.ev = NoEv]

\* How a cursor moved: not at all, one buffer forward, one back, or elsewhere.
Moved(a, b) ==
  IF b = a THEN "same"
  ELSE IF b = bump(a) THEN "fwd"
  ELSE IF a = bump(b) THEN "back"
  ELSE "jump"
\* Where a buffer stood when a pool function was called: at r, next after r, or neither.
Where(m, b) ==
  IF b = m.r THEN "r" ELSE IF b = m.bf[m.r].nx THEN "rnx" ELSE "other"
\* What one call of a pool function did: op took the pool from m to m2 and returned ret;
\* by is the handler that called it, bf the buffer that handler was given (NULL when
\* it has none).
Call(op, by, m, m2, ret, bf) ==
  [op |-> op,
   by |-> by,
   ret |-> ret,
   w |-> Moved(m.w, m2.w), q |-> Moved(m.q, m2.q), r |-> Moved(m.r, m2.r),
   ch |-> {<<m.bf[b].buffer_state, m2.bf[b].buffer_state, Where(m, b)>> :
             b \in {x \in Buffers : m.bf[x] # m2.bf[x]}},
   rs |-> m.bf[m.r].buffer_state,
   handed |-> bf = NULL \/ bf = m.r,
   over |-> m2.buffers_available > PLANNER_BUFFER_POOL_SIZE,
   idle |-> \A b \in Buffers : m2.bf[b].buffer_state = MP_BUFFER_EMPTY]
\* The pool function's result is stored and the call noted. What is remembered of a
\* queued command lasts as long as a buffer holds the command.
Noted(c, op, by, m2, ret, bf) ==
  [c EXCEPT !.mb = m2,
            !.ev.trail = Append(@, Call(op, by, c.mb, m2, ret, bf)),
            !.hist.qval = [b \in Buffers |-> IF m2.bf[b].cm_func = FN_NULL THEN 0 ELSE @[b]],
            !.hist.ran = [b \in Buffers |-> m2.bf[b].cm_func # FN_NULL /\ @[b]]]
\* The same, the context and the pool worked out once.
Did(c, op, by, m2, ret, bf) ==
  CHOOSE d \in {Noted(x.c, op, by, x.m2, ret, bf) : x \in {[c |-> c, m2 |-> m2]}} : TRUE

NoHist ==
  [commits |-> << >>, runs |-> << >>, n |-> 0, flushed |-> FALSE,
   serial |-> [i \in Buffers |-> 0],
   qval |-> [i \in Buffers |-> 0],
   ran |-> [i \in Buffers |-> FALSE]]

\* The commit just made gets the next serial number; the buffer carries it.
NoteCommit(h, b) ==
  [h EXCEPT !.n = @ + 1,
            !.serial[b] = h.n + 1,
            !.ran[b] = FALSE,
            !.commits = IF h.flushed THEN @ ELSE Append(@, <<b, h.n + 1>>)]
\* A buffer newly promoted to Running.
NotePromote(h, b) ==
  [h EXCEPT !.runs = IF h.flushed \/ Len(@) > MaxCommits THEN @ ELSE Append(@, <<b, h.serial[b]>>)]

\* ---------------------------------------------------------- canonical machine
\* cm_hard_alarm, cm_cycle_end, cm_set_motion_state, cm_abort_arc: the effects the
\* planner relies on.
cm_hard_alarm(c, status) == [c EXCEPT !.ev.alarm = status, !.ev.stat = status]
cm_cycle_end(c) == [c EXCEPT !.ev.cycle_end = TRUE, !.cm.motion_state = MOTION_STOP]
cm_set_motion_state(c, s) == [c EXCEPT !.cm.motion_state = s]
cm_abort_arc(c) == [c EXCEPT !.ev.abort_arc = TRUE]

\* ------------------------------------------------------------ consumer side
\* mp_get_run_buffer as the consumer calls it, with the promotion noted.
GetRunOf(c, g) ==
  LET promoted == g.ret # NULL /\ c.mb.bf[c.mb.r].buffer_state # MP_BUFFER_RUNNING
  IN  [c |-> [Did(c, "mp_get_run_buffer", "", g.mb, g.ret, NULL) EXCEPT
                       !.ev.promoted = promoted,
                       !.hist = IF promoted THEN NotePromote(@, g.ret) ELSE @],
       ret |-> g.ret]
GetRun(c) ==
  CHOOSE y \in {GetRunOf(x.c, x.g) : x \in {[c |-> c, g |-> mp_get_run_buffer(c.mb)]}} : TRUE

\* mp_free_run_buffer followed by cm_cycle_end when it returned true.
FreeAndCycleEndOf(c, f, by, bf) ==
  LET c1 == Did(c, "mp_free_run_buffer", by, f.mb, f.ret, bf)
  IN  IF f.ret # 0 THEN cm_cycle_end(c1) ELSE c1
FreeAndCycleEnd(c, by, bf) ==
  CHOOSE y \in {FreeAndCycleEndOf(x.c, x.f, by, bf) :
                  x \in {[c |-> c, f |-> mp_free_run_buffer(c.mb)]}} : TRUE

\* _exec_dwell: seconds to microseconds for the stepper, then free.
exec_dwell(c, bf) ==
  FreeAndCycleEnd([c EXCEPT !.ev.st_dwell = c.mb.bf[bf].payload * 1000000], "_exec_dwell", bf)

\* _exec_command: st_prep_command keeps the pointer for mp_runtime_command.
exec_command(c, bf) == [c EXCEPT !.st_bf = bf]

\* mp_runtime_command with a callable bf->cm_func: the callback gets the vectors stored
\* in bf. Noted with it: the value mp_queue_command was given for the command in bf,
\* and whether that command's callback had been called before.
mp_runtime_command(c, bf) ==
  FreeAndCycleEnd([c EXCEPT !.ev.cm_exec = c.mb.bf[bf].payload,
                            !.ev.cm_queued = c.hist.qval[bf],
                            !.ev.cm_again = c.hist.ran[bf],
                            !.hist.ran[bf] = TRUE,
                            !.st_bf = NULL],
                  "mp_runtime_command", bf)

\* The executor's attempt: get the run buffer and call its bf_func. A buffer with no
\* bf_func is a move whose continuation keeps it until it frees it.
mp_exec_move_of(g) ==
  LET f == IF g.ret = NULL THEN FN_NULL ELSE g.c.mb.bf[g.ret].bf_func
      c1 == cm_set_motion_state(g.c, MOTION_RUN)
  IN  IF g.ret = NULL THEN g.c
      ELSE IF f = FN_EXEC_DWELL THEN exec_dwell(c1, g.ret)
      ELSE IF f = FN_EXEC_COMMAND THEN exec_command(c1, g.ret)
      ELSE [c1 EXCEPT !.run_bf = g.ret]
mp_exec_move(c) ==
  CHOOSE y \in {mp_exec_move_of(g) : g \in {GetRun(c)}} : TRUE

\* st_request_exec_move: an exec is requested if the runtime is not busy; it may run
\* before the call returns (sync) or later.
Idle(c) == c.run_bf = NULL /\ c.st_bf = NULL
st_request_exec_move(c, sync) ==
  IF sync /\ Idle(c) THEN mp_exec_move(c) ELSE c

\* ------------------------------------------------------------ producer side
\* mp_commit_write_buffer: mark, advance q, then request the exec.
SeenAtRequest(m, b) ==
  [made |-> TRUE, bf |-> b, state |-> m.bf[b].buffer_state, type |-> m.bf[b].move_type, q |-> m.q]
mp_commit_write_buffer(c, move_type, sync) ==
  LET b == c.mb.q
      m1 == CommitQueue(c.mb, move_type)
      c1 == [Did(c, "mp_commit_write_buffer", "", m1, 0, NULL) EXCEPT
               !.ev.req = SeenAtRequest(m1, b), !.hist = NoteCommit(@, b)]
  IN  st_request_exec_move(c1, sync)

\* mp_queue_command(cm_exec, value, flag).
QueueCommandCommitsAnyway(c, value, sync) ==
  LET g == mp_get_write_buffer(c.mb)
      c0 == IF g.ret = NULL THEN cm_hard_alarm(c, STAT_BUFFER_FULL_FATAL) ELSE c
      b == IF g.ret = NULL THEN c.mb.q ELSE g.ret
      m1 == [g.mb EXCEPT !.bf[b].move_type = MOVE_TYPE_COMMAND,
                         !.bf[b].bf_func = FN_EXEC_COMMAND,
                         !.bf[b].cm_func = FN_CM_EXEC,
                         !.bf[b].payload = value]
  IN  mp_commit_write_buffer([c0 EXCEPT !.mb = m1], MOVE_TYPE_COMMAND, sync)
mp_queue_command(c, value, sync) ==
  LET g == mp_get_write_buffer(c.mb)
      c1 == Did(c, "mp_get_write_buffer", "mp_queue_command", g.mb, g.ret, NULL)
      m1 == [g.mb EXCEPT !.bf[g.ret].move_type = MOVE_TYPE_COMMAND,
                         !.bf[g.ret].bf_func = FN_EXEC_COMMAND,
                         !.bf[g.ret].cm_func = FN_CM_EXEC,
                         !.bf[g.ret].payload = value]
  IN  IF g.ret = NULL THEN cm_hard_alarm(c1, STAT_BUFFER_FULL_FATAL)
      ELSE mp_commit_write_buffer([c1 EXCEPT !.mb = m1, !.hist.qval[g.ret] = value],
                                  MOVE_TYPE_COMMAND, sync)

\* mp_dwell(seconds).
mp_dwell(c, seconds, sync) ==
  LET g == mp_get_write_buffer(c.mb)
      c1 == Did(c, "mp_get_write_buffer", "mp_dwell", g.mb, g.ret, NULL)
      m1 == [g.mb EXCEPT !.bf[g.ret].bf_func = FN_EXEC_DWELL,
                         !.bf[g.ret].payload = seconds,
                         !.bf[g.ret].move_state = MOVE_NEW]
  IN  IF g.ret = NULL THEN cm_hard_alarm(c1, STAT_BUFFER_FULL_FATAL)
      ELSE mp_commit_write_buffer([c1 EXCEPT !.mb = m1], MOVE_TYPE_DWELL, sync)

\* --------------------------------------------------------------- positions
\* mm and mr after memset(&mm, 0, ...) and memset(&mr, 0, ...).
ZeroMM == [position |-> [axis \in Axes |-> 0]]
ZeroMR ==
  [position |-> [axis \in Axes |-> 0], target |-> [axis \in Axes |-> 0],
   endpoint |-> [axis \in Axes |-> 0],
   target_steps |-> [m \in Motors |-> 0], position_steps |-> [m \in Motors |-> 0],
   commanded_steps |-> [m \in Motors |-> 0], following_error |-> [m \in Motors |-> 0]]
\* The encoders and the stepper's prep structure before anything ran.
ZeroEn == [m \in Motors |-> [encoder_steps |-> 0]]
ZeroStPre == [mot |-> [m \in Motors |-> [corrected_steps |-> 0]]]

\* ik_kinematics(travel, steps): each motor's steps are the travel of the axis the motor
\* is configured for, a fixed number of steps per unit of length.
ik_kinematics(travel, mot) == [m \in Motors |-> travel[mot[m].axis] + travel[mot[m].axis]]

\* en_set_encoder_steps(motor, steps): the steps are written to the motor's encoder
\* register.
en_set_encoder_steps(e, m, steps) == [e EXCEPT ![m].encoder_steps = steps]

\* mp_set_planner_position(axis, position).
mp_set_planner_position(c, axis, position) == [c EXCEPT !.mm.position[axis] = position]

\* mp_set_runtime_position(axis, position).
mp_set_runtime_position(c, axis, position) == [c EXCEPT !.mr.position[axis] = position]

\* mp_set_steps_to_runtime_position: the body of the loop for one motor, and the loop
\* from motor to MOTORS - 1.
set_steps_of_motor(c, step_position, m) ==
  [c EXCEPT !.mr.target_steps[m] = step_position[m],
            !.mr.position_steps[m] = step_position[m],
            !.mr.commanded_steps[m] = step_position[m],
            !.en = en_set_encoder_steps(@, m, step_position[m]),
            !.mr.following_error[m] = 0,
            !.st_pre.mot[m].corrected_steps = 0]
RECURSIVE set_steps_from(_, _, _)
set_steps_from(c, step_position, m) ==
  IF m < MOTORS
  THEN set_steps_from(set_steps_of_motor(c, step_position, m), step_position, m + 1)
  ELSE c
\* mp_set_steps_to_runtime_position.
SetStepsSkipsLastMotor(c) ==
  LET step_position == ik_kinematics(c.mr.position, c.motor)
  IN  IF MOTORS > 1
      THEN [set_steps_from(c, step_position, 0) EXCEPT
              !.mr = [@ EXCEPT !.commanded_steps[MOTORS - 1] = c.mr.commanded_steps[MOTORS - 1],
                               !.following_error[MOTORS - 1] = c.mr.following_error[MOTORS - 1]]]
      ELSE c
mp_set_steps_to_runtime_position(c) ==
  set_steps_from(c, ik_kinematics(c.mr.position, c.motor), 0)

\* The runtime executing a segment of a move towards target on every axis: it writes
\* mr.target and mr.endpoint and accumulates a following error.
exec_segment(c, target) ==
  [c EXCEPT !.mr.target = [axis \in Axes |-> target],
            !.mr.endpoint = [axis \in Axes |-> target],
            !.mr.following_error = [m \in Motors |-> target]]

\* The stepper and the encoder of motor m after the runtime ran: steps taken, the next
\* target one step on, the encoder as far off again, and a correction pending.
steps_drift(c, m, steps) ==
  [c EXCEPT !.mr.target_steps[m] = steps + 1,
            !.mr.position_steps[m] = steps,
            !.mr.commanded_steps[m] = steps,
            !.mr.following_error[m] = steps,
            !.en[m].encoder_steps = steps + steps,
            !.st_pre.mot[m].corrected_steps = steps]

\* -------------------------------------------------------------------- axis.c
\* motor_get_axis and motor_is_enabled: the motor's configuration.
motor_get_axis(mot, m) == mot[m].axis
motor_is_enabled(mot, m) == mot[m].enabled

\* Scaling of the limits: velocity and acceleration by 1,000, jerk by 1,000,000.
VELOCITY_MULTIPLIER == 1000
ACCEL_MULTIPLIER == 1000
JERK_MULTIPLIER == 1000000

\* axis_get_motor.
axis_get_motor(map, axis) == map[axis]

\* axis_map_motors, the inner loop from motor m on: the first motor whose axis is axis
\* is stored in motor_map[axis] and the loop left; with no such motor nothing is stored.
RECURSIVE map_axis_from(_, _, _, _)
map_axis_from(map, mot, axis, m) ==
  IF m < MOTORS
  THEN IF motor_get_axis(mot, m) = axis
       THEN [map EXCEPT ![axis] = m]
       ELSE map_axis_from(map, mot, axis, m + 1)
  ELSE map
\* axis_map_motors, the outer loop from axis on.
RECURSIVE map_motors_from(_, _, _)
map_motors_from(map, mot, axis) ==
  IF axis < AXES
  THEN map_motors_from(map_axis_from(map, mot, axis, 0), mot, axis + 1)
  ELSE map
\* axis_map_motors.
axis_map_motors(map, mot) == map_motors_from(map, mot, 0)

\* axis_get_velocity_max, axis_get_accel_max, axis_get_jerk_max.
axis_get_velocity_max(map, ax, axis) ==
  LET m == axis_get_motor(map, axis)
  IN  IF m = 0 - 1 THEN 0 ELSE ax[m].velocity_max * VELOCITY_MULTIPLIER
axis_get_accel_max(map, ax, axis) ==
  LET m == axis_get_motor(map, axis)
  IN  IF m = 0 - 1 THEN 0 ELSE ax[m].accel_max * ACCEL_MULTIPLIER
axis_get_jerk_max(map, ax, axis) ==
  LET m == axis_get_motor(map, axis)
  IN  IF m = 0 - 1 THEN 0 ELSE ax[m].jerk_max * JERK_MULTIPLIER

\* fp_ZERO on the model's whole numbers.
fp_ZERO(a) == a = 0

\* axis_is_enabled.
axis_is_enabled(map, ax, mot, axis) ==
  LET m == axis_get_motor(map, axis)
  IN  /\ m # 0 - 1
      /\ motor_is_enabled(mot, m)
      /\ ~fp_ZERO(axis_get_velocity_max(map, ax, axis))

\* set_velocity_max, set_accel_max, set_jerk_max: the entry of axes is written directly.
set_velocity_max(ax, i, value) == [ax EXCEPT ![i].velocity_max = value]
set_accel_max(ax, i, value) == [ax EXCEPT ![i].accel_max = value]
set_jerk_max(ax, i, value) == [ax EXCEPT ![i].jerk_max = value]

\* mp_flush_planner.
FlushClearsPositions(c) ==
  [cm_set_motion_state(Did(cm_abort_arc(c), "mp_init_buffers", "mp_flush_planner",
                           mp_init_buffers(c.mb), 0, NULL),
                       MOTION_STOP)
     EXCEPT !.mm = ZeroMM, !.mr = ZeroMR]
mp_flush_planner(c) ==
  cm_set_motion_state(Did(cm_abort_arc(c), "mp_init_buffers", "mp_flush_planner",
                          mp_init_buffers(c.mb), 0, NULL),
                      MOTION_STOP)

\* ---------------------------------------------------------------- actions
\* The memory before planner_init and mp_init_buffers have run.
ZeroPool ==
  [bf |-> [i \in Buffers |-> ZeroBuf], w |-> NULL, q |-> NULL, r |-> NULL,
   buffers_available |-> 0]

\* What the claims compare of a pool: cursors, counter and every buffer's state.
View(m) ==
  [w |-> m.w, q |-> m.q, r |-> m.r, buffers_available |-> m.buffers_available,
   states |-> [i \in Buffers |-> m.bf[i].buffer_state]]

\* The foreground inside no pool function.
Resting == [pc |-> "idle", reg |-> 0, w |-> NULL, op |-> ""]

\* The motor configuration at power up: motor m drives axis m, disabled.
DefaultMotors == [m \in Motors |-> [axis |-> m % AXES, enabled |-> FALSE]]

\* planner_init; motor_map and axes as their initializers leave them.
Init ==
  /\ mb = mp_init_buffers(ZeroPool)
  /\ mm = ZeroMM
  /\ mr = ZeroMR
  /\ en = ZeroEn
  /\ st_pre = ZeroStPre
  /\ motor = DefaultMotors
  /\ motor_map = [axis \in Axes |-> 0 - 1]
  /\ axes = [m \in Motors |-> [velocity_max |-> 0, accel_max |-> 0, jerk_max |-> 0]]
  /\ prod = Resting
  /\ run_bf = NULL
  /\ st_bf = NULL
  /\ cm = [motion_state |-> MOTION_STOP]
  /\ lastOp = "planner_init"
  /\ lastRet = 0
  /\ ev = NoEv
  /\ outstanding = << >>
  /\ snap = << >>
  /\ hist = NoHist

\* The state after an operation; a halted firmware does nothing more.
HALT == "halt"
Lands(c, op, ret, outs, sn) ==
  /\ lastOp # HALT
  /\ mm' = c.mm
  /\ mr' = c.mr
  /\ en' = c.en
  /\ st_pre' = c.st_pre
  /\ motor' = c.motor
  /\ motor_map' = motor_map
  /\ axes' = axes
  /\ mb' = c.mb
  /\ run_bf' = c.run_bf
  /\ st_bf' = c.st_bf
  /\ cm' = c.cm
  /\ ev' = c.ev
  /\ hist' = c.hist
  /\ lastOp' = op
  /\ lastRet' = ret
  /\ outstanding' = outs
  /\ snap' = sn
\* An operation run from start to end.
Becomes(c, op, ret, outs, sn) ==
  /\ Lands(c, op, ret, outs, sn)
  /\ prod' = prod

\* Producer: mp_get_write_buffer called on its own (a move being planned).
GetWriteBuffer ==
  LET c == Fresh(Ctx)
      g == mp_get_write_buffer(c.mb)
  IN  Becomes(Did(c, "mp_get_write_buffer", "", g.mb, g.ret, NULL), "mp_get_write_buffer", g.ret,
              IF g.ret # NULL THEN Append(outstanding, g.ret) ELSE outstanding,
              IF g.ret # NULL THEN <<View(mb)>> ELSE << >>)

\* Producer: mp_unget_write_buffer, after a get that was not committed.
UngetWriteBuffer ==
  /\ outstanding # << >>
  /\ Becomes(Did(Fresh(Ctx), "mp_unget_write_buffer", "", mp_unget_write_buffer(mb), 0, NULL),
             "mp_unget_write_buffer", 0,
             SubSeq(outstanding, 1, Len(outstanding) - 1), << >>)

\* Producer: the caller fills the oldest buffer it holds and commits it as a move.
CommitWriteBuffer(value, sync) ==
  /\ outstanding # << >>
  /\ mb.bf[mb.q].buffer_state = MP_BUFFER_LOADING
  /\ hist.n < MaxCommits
  /\ LET c == [Fresh(Ctx) EXCEPT !.mb.bf[Head(outstanding)].payload = value]
     IN  Becomes(mp_commit_write_buffer(c, MOVE_TYPE_ALINE, sync), "mp_commit_write_buffer", 0,
                 Tail(outstanding), << >>)

\* Producer: mp_queue_command, when no other buffer is being filled.
QueueCommand(value, sync) ==
  /\ outstanding = << >>
  /\ mb.bf[mb.w].buffer_state = MP_BUFFER_EMPTY => hist.n < MaxCommits
  /\ Becomes(mp_queue_command(Fresh(Ctx), value, sync), "mp_queue_command", 0, << >>, << >>)

\* Producer: mp_dwell, when no other buffer is being filled.
Dwell(seconds, sync) ==
  /\ outstanding = << >>
  /\ mb.bf[mb.w].buffer_state = MP_BUFFER_EMPTY => hist.n < MaxCommits
  /\ Becomes(mp_dwell(Fresh(Ctx), seconds, sync), "mp_dwell", 0, << >>, << >>)

\* Foreground: mp_flush_planner. The buffers being filled are given up with the pool;
\* the consumer's pointers (run_bf, st_bf) are not the planner's to reset.
Flush ==
  Becomes([mp_flush_planner(Fresh(Ctx)) EXCEPT
             !.hist = [NoHist EXCEPT !.flushed = TRUE, !.n = hist.n]],
          "mp_flush_planner", 0, << >>, << >>)

\* Consumer: mp_get_run_buffer called on its own (a move's continuation).
GetRunBuffer ==
  /\ st_bf = NULL
  /\ \E g \in {GetRun(Fresh(Ctx))} :
       \E c \in {[g.c EXCEPT !.run_bf = IF g.ret # NULL THEN g.ret ELSE @]} :
         Becomes(c, "mp_get_run_buffer", g.ret, outstanding, << >>)

\* Consumer: mp_free_run_buffer, after mp_get_run_buffer returned a buffer.
FreeRunBuffer ==
  /\ run_bf # NULL
  /\ \E f \in {mp_free_run_buffer(mb)} :
       \E c \in {[Did(Fresh(Ctx), "mp_free_run_buffer", "", f.mb, f.ret, run_bf) EXCEPT
                    !.run_bf = NULL]} :
         Becomes(c, "mp_free_run_buffer", f.ret, outstanding, << >>)

\* Consumer: the executor's attempt, when the runtime is not busy.
ExecMove ==
  /\ Idle(Ctx)
  /\ \E c \in {mp_exec_move(Fresh(Ctx))} :
       Becomes(c, "mp_exec_move", 0, outstanding, << >>)

\* Consumer: the stepper reaches the command it was handed and calls
\* mp_runtime_command(st_bf). Calling a null bf->cm_func (a buffer zeroed or refilled
\* since it was handed over) is undefined: a jump to address 0 restarts the firmware,
\* a trap stops it.
RuntimeCommand(ub) ==
  /\ st_bf # NULL
  /\ IF mb.bf[st_bf].cm_func # FN_NULL
     THEN \E c \in {mp_runtime_command(Fresh(Ctx), st_bf)} :
            Becomes(c, "mp_runtime_command", 0, outstanding, << >>)
     ELSE IF ub = "restarts"
     THEN Becomes([mb |-> mp_init_buffers(ZeroPool), run_bf |-> NULL, st_bf |-> NULL,
                   cm |-> [motion_state |-> MOTION_STOP],
                   ev |-> NoEv,
                   hist |-> [NoHist EXCEPT !.flushed = TRUE, !.n = hist.n],
                   mm |-> ZeroMM, mr |-> ZeroMR,
                   en |-> ZeroEn, st_pre |-> ZeroStPre, motor |-> motor],
                  "planner_init", 0, << >>, << >>)
     ELSE Becomes(Fresh(Ctx), HALT, 0, outstanding, << >>)

\* Foreground: mp_set_planner_position.
SetPlannerPosition(axis, position) ==
  Becomes(mp_set_planner_position(Fresh(Ctx), axis, position), "mp_set_planner_position", 0,
          outstanding, << >>)

\* Runtime: mp_set_runtime_position.
SetRuntimePosition(axis, position) ==
  Becomes(mp_set_runtime_position(Fresh(Ctx), axis, position), "mp_set_runtime_position", 0,
          outstanding, << >>)

\* mp_set_steps_to_runtime_position.
SetStepsToRuntimePosition ==
  Becomes(mp_set_steps_to_runtime_position(Fresh(Ctx)), "mp_set_steps_to_runtime_position", 0,
          outstanding, << >>)

\* Runtime: a segment of the move in run_bf is executed.
ExecSegment(target) ==
  /\ run_bf # NULL
  /\ Becomes(exec_segment(Fresh(Ctx), target), "exec_segment", 0, outstanding, << >>)

\* Runtime: motor m has run.
StepsDrift(m, steps) ==
  Becomes(steps_drift(Fresh(Ctx), m, steps), "steps_drift", 0, outstanding, << >>)

\* An operation of axis.c or a change of the motor configuration: the planner is not
\* involved.
AxisLands(op, map, ax, mot) ==
  /\ lastOp # HALT
  /\ lastOp' = op
  /\ lastRet' = 0
  /\ motor_map' = map
  /\ axes' = ax
  /\ motor' = mot
  /\ UNCHANGED <<mb, run_bf, st_bf, cm, ev, outstanding, snap, hist, mm, mr, prod, en, st_pre>>

\* The motor configuration changes: motor m is given another axis.
SetMotorAxis(m, axis) ==
  /\ motor[m].axis # axis
  /\ AxisLands("set_motor_axis", motor_map, axes, [motor EXCEPT ![m].axis = axis])

\* The motor configuration changes: motor m is enabled or disabled.
SetMotorEnabled(m, enabled) ==
  /\ motor[m].enabled # enabled
  /\ AxisLands("set_motor_enabled", motor_map, axes, [motor EXCEPT ![m].enabled = enabled])

\* axis_map_motors.
AxisMapMotors ==
  AxisLands("axis_map_motors", axis_map_motors(motor_map, motor), axes, motor)

\* set_velocity_max, set_accel_max, set_jerk_max.
SetVelocityMax(i, value) ==
  AxisLands("set_velocity_max", motor_map, set_velocity_max(axes, i, value), motor)
SetAccelMax(i, value) ==
  AxisLands("set_accel_max", motor_map, set_accel_max(axes, i, value), motor)
SetJerkMax(i, value) ==
  AxisLands("set_jerk_max", motor_map, set_jerk_max(axes, i, value), motor)

Next ==
  \/ GetWriteBuffer
  \/ UngetWriteBuffer
  \/ \E value \in Values, sync \in BOOLEAN : CommitWriteBuffer(value, sync)
  \/ \E value \in Values, sync \in BOOLEAN : QueueCommand(value, sync)
  \/ \E seconds \in Values, sync \in BOOLEAN : Dwell(seconds, sync)
  \/ Flush
  \/ GetRunBuffer
  \/ FreeRunBuffer
  \/ ExecMove
  \/ \E ub \in {"restarts", "halts"} : RuntimeCommand(ub)

Spec == Init /\ [][Next]_vars

\* The pool operations alone: any sequence of get, unget, commit, get run, free run
\* and flush, each under the condition its caller must respect.
NextApi ==
  \/ GetWriteBuffer
  \/ UngetWriteBuffer
  \/ \E value \in Values, sync \in BOOLEAN : CommitWriteBuffer(value, sync)
  \/ Flush
  \/ GetRunBuffer
  \/ FreeRunBuffer

SpecApi == Init /\ [][NextApi]_vars

\* ------------------------------------------------- the foreground, step by step
\* The pool functions the foreground runs are not atomic: the LO interrupt (the
\* consumer's actions above) may run between any two of their statements, and
\* between the load and the store of mb.buffers_available-- and ++.

\* mp_get_write_buffer, lines 292-299: the test, the memset and the Loading mark. op is
\* the caller: mp_get_write_buffer on its own, mp_queue_command or mp_dwell.
GetTestAndMark(op) ==
  /\ prod.pc = "idle"
  /\ op # "mp_get_write_buffer" => outstanding = << >>
  /\ mb.bf[mb.w].buffer_state = MP_BUFFER_EMPTY
  /\ LET c == Fresh(Ctx)
         m2 == [mb EXCEPT !.bf[mb.w] =
                  [mp_clear_buffer(@) EXCEPT !.buffer_state = MP_BUFFER_LOADING]]
     IN  Lands(Did(c, "mp_get_write_buffer", op, m2, mb.w, NULL), "get:mark", 0,
               outstanding, << >>)
  /\ prod' = [pc |-> "get:marked", reg |-> 0, w |-> mb.w, op |-> op]

\* line 300, mb.buffers_available--: the load.
GetLoad ==
  /\ prod.pc = "get:marked"
  /\ Lands(Fresh(Ctx), "get:load", 0, outstanding, << >>)
  /\ prod' = [prod EXCEPT !.pc = "get:loaded", !.reg = mb.buffers_available]

\* line 300, mb.buffers_available--: the store.
GetStore ==
  /\ prod.pc = "get:loaded"
  /\ Lands([Fresh(Ctx) EXCEPT !.mb.buffers_available = Dec8(prod.reg)], "get:store", 0,
           outstanding, << >>)
  /\ prod' = [prod EXCEPT !.pc = "get:stored", !.reg = 0]

\* line 301, mb.w = w->nx, and the return; mp_queue_command and mp_dwell then fill the
\* buffer (lines 180-187, 222-224).
GetAdvance(value) ==
  /\ prod.pc = "get:stored"
  /\ LET bf == prod.w
         m1 == [mb EXCEPT !.w = mb.bf[bf].nx]
         m2 == IF prod.op = "mp_queue_command"
               THEN [m1 EXCEPT !.bf[bf].move_type = MOVE_TYPE_COMMAND,
                               !.bf[bf].bf_func = FN_EXEC_COMMAND,
                               !.bf[bf].cm_func = FN_CM_EXEC,
                               !.bf[bf].payload = value]
               ELSE IF prod.op = "mp_dwell"
               THEN [m1 EXCEPT !.bf[bf].bf_func = FN_EXEC_DWELL,
                               !.bf[bf].payload = value,
                               !.bf[bf].move_state = MOVE_NEW]
               ELSE m1
         c == [Fresh(Ctx) EXCEPT !.mb = m2,
                                 !.hist.qval[bf] =
                                   IF prod.op = "mp_queue_command" THEN value ELSE @]
     IN  IF prod.op = "mp_get_write_buffer"
         THEN /\ Lands(c, "mp_get_write_buffer", bf, Append(outstanding, bf), << >>)
              /\ prod' = Resting
         ELSE /\ Lands(c, "get:return", bf, outstanding, << >>)
              /\ prod' = [prod EXCEPT !.pc = "commit"]

\* mp_commit_write_buffer called on its own for the oldest buffer the caller holds.
CommitCall(value) ==
  /\ prod.pc = "idle"
  /\ outstanding # << >>
  /\ mb.bf[mb.q].buffer_state = MP_BUFFER_LOADING
  /\ Lands([Fresh(Ctx) EXCEPT !.mb.bf[Head(outstanding)].payload = value], "commit:call", 0,
           Tail(outstanding), << >>)
  /\ prod' = [pc |-> "commit", reg |-> 0, w |-> NULL, op |-> "mp_commit_write_buffer"]

\* mp_commit_write_buffer, lines 330-332: move_type, move_state and the Queued mark.
CommitMark ==
  /\ prod.pc = "commit"
  /\ hist.n < MaxCommits
  /\ LET move_type == IF prod.op = "mp_queue_command" THEN MOVE_TYPE_COMMAND
                      ELSE IF prod.op = "mp_dwell" THEN MOVE_TYPE_DWELL
                      ELSE MOVE_TYPE_ALINE
         m2 == [mb EXCEPT !.bf[mb.q].move_type = move_type,
                          !.bf[mb.q].move_state = MOVE_NEW,
                          !.bf[mb.q].buffer_state = MP_BUFFER_QUEUED]
         c == Did(Fresh(Ctx), "mp_commit_write_buffer", prod.op, m2, 0, NULL)
     IN  Lands([c EXCEPT !.hist = NoteCommit(@, mb.q)], "commit:mark", 0, outstanding, << >>)
  /\ prod' = [prod EXCEPT !.pc = "commit:marked"]

\* line 333: mb.q = mb.q->nx.
CommitAdvance ==
  /\ prod.pc = "commit:marked"
  /\ Lands([Fresh(Ctx) EXCEPT !.mb.q = mb.bf[mb.q].nx], "commit:advance", 0, outstanding, << >>)
  /\ prod' = [prod EXCEPT !.pc = "commit:advanced"]

\* line 334: st_request_exec_move, and the return.
CommitRequest(sync) ==
  /\ prod.pc = "commit:advanced"
  /\ Lands(st_request_exec_move(Fresh(Ctx), sync), prod.op, 0, outstanding, << >>)
  /\ prod' = Resting

\* mp_unget_write_buffer, line 312: mb.w = mb.w->pv.
UngetBack ==
  /\ prod.pc = "idle"
  /\ outstanding # << >>
  /\ Lands([Fresh(Ctx) EXCEPT !.mb.w = mb.bf[mb.w].pv], "unget:back", 0,
           SubSeq(outstanding, 1, Len(outstanding) - 1), << >>)
  /\ prod' = [pc |-> "unget:back", reg |-> 0, w |-> NULL, op |-> "mp_unget_write_buffer"]

\* line 313: mb.w->buffer_state = MP_BUFFER_EMPTY.
UngetMark ==
  /\ prod.pc = "unget:back"
  /\ Lands(Did(Fresh(Ctx), "mp_unget_write_buffer", "",
               [mb EXCEPT !.bf[mb.w].buffer_state = MP_BUFFER_EMPTY], 0, NULL),
           "unget:mark", 0, outstanding, << >>)
  /\ prod' = [prod EXCEPT !.pc = "unget:marked"]

\* line 314, mb.buffers_available++: the load.
UngetLoad ==
  /\ prod.pc = "unget:marked"
  /\ Lands(Fresh(Ctx), "unget:load", 0, outstanding, << >>)
  /\ prod' = [prod EXCEPT !.pc = "unget:loaded", !.reg = mb.buffers_available]

\* line 314, mb.buffers_available++: the store, and the return.
UngetStore ==
  /\ prod.pc = "unget:loaded"
  /\ Lands([Fresh(Ctx) EXCEPT !.mb.buffers_available = Inc8(prod.reg)],
           "mp_unget_write_buffer", 0, outstanding, << >>)
  /\ prod' = Resting

\* The foreground's pool functions statement by statement, and the consumer in the
\* interrupt; no flush.
NextPreempt ==
  \/ \E op \in {"mp_get_write_buffer", "mp_queue_command", "mp_dwell"} : GetTestAndMark(op)
  \/ GetLoad
  \/ GetStore
  \/ \E value \in Values : GetAdvance(value)
  \/ \E value \in Values : CommitCall(value)
  \/ CommitMark
  \/ CommitAdvance
  \/ \E sync \in BOOLEAN : CommitRequest(sync)
  \/ UngetBack
  \/ UngetMark
  \/ UngetLoad
  \/ UngetStore
  \/ GetRunBuffer
  \/ FreeRunBuffer
  \/ ExecMove
  \/ \E ub \in {"restarts", "halts"} : RuntimeCommand(ub)

SpecPreempt == Init /\ [][NextPreempt]_vars

\* The same with a consumer that keeps being scheduled: the LO interrupt is served
\* whenever it is pending, so the executor's attempt, the stepper's call of
\* mp_runtime_command and a move's get and free are not put off for ever. Nothing is
\* assumed of the foreground.
SpecLive ==
  /\ SpecPreempt
  /\ WF_vars(GetRunBuffer)
  /\ WF_vars(FreeRunBuffer)
  /\ WF_vars(ExecMove)
  /\ WF_vars(\E ub \in {"restarts", "halts"} : RuntimeCommand(ub))

\* The position layers next to the pool: positions are set on one axis, segments run,
\* and the planner is flushed with buffers Loading, Queued and Running.
NextPos ==
  \/ \E position \in 0 .. MaxVal : SetPlannerPosition(AXIS_X, position)
  \/ \E position \in 0 .. MaxVal : SetRuntimePosition(AXIS_X, position)
  \/ SetStepsToRuntimePosition
  \/ \E target \in 0 .. MaxVal : ExecSegment(target)
  \/ GetWriteBuffer
  \/ \E value \in Values : CommitWriteBuffer(value, FALSE)
  \/ GetRunBuffer
  \/ Flush

SpecPos == Init /\ [][NextPos]_vars

\* The step state: positions are set on every axis, the motors run and drift, and the
\* steps are set to the runtime position.
NextSteps ==
  \/ \E axis \in Axes, position \in 0 .. MaxVal : SetPlannerPosition(axis, position)
  \/ \E axis \in Axes, position \in 0 .. MaxVal : SetRuntimePosition(axis, position)
  \/ \E m \in Motors, steps \in Values : StepsDrift(m, steps)
  \/ SetStepsToRuntimePosition

SpecSteps == Init /\ [][NextSteps]_vars

\* axis.c: the motor configuration and the limits change, and the axes are mapped to
\* the motors, any number of times.
NextAxis ==
  \/ \E m \in Motors, axis \in Axes : SetMotorAxis(m, axis)
  \/ \E m \in Motors, enabled \in BOOLEAN : SetMotorEnabled(m, enabled)
  \/ \E i \in Motors, value \in 0 .. MaxVal : SetVelocityMax(i, value)
  \/ \E i \in Motors, value \in 0 .. MaxVal : SetAccelMax(i, value)
  \/ \E i \in Motors, value \in 0 .. MaxVal : SetJerkMax(i, value)
  \/ AxisMapMotors

SpecAxis == Init /\ [][NextAxis]_vars

\* ------------------------------------------------------------- properties
Active(m) == {i \in Buffers : m.bf[i].buffer_state \in ActiveStates}
Visible(m) ==
  {i \in Buffers : m.bf[i].buffer_state \in {MP_BUFFER_QUEUED, MP_BUFFER_PENDING, MP_BUFFER_RUNNING}}
Loading(m) == {i \in Buffers : m.bf[i].buffer_state = MP_BUFFER_LOADING}
CounterHolds(m) == m.buffers_available + Cardinality(Active(m)) = PLANNER_BUFFER_POOL_SIZE
\* Steps forward on the ring from a to b.
Ahead(a, b) == (b - a + PLANNER_BUFFER_POOL_SIZE) % PLANNER_BUFFER_POOL_SIZE
\* q lies Visible-many buffers ahead of r, and w Loading-many ahead of q.
CursorOrder(m) ==
  /\ Ahead(m.r, m.q) = Cardinality(Visible(m)) % PLANNER_BUFFER_POOL_SIZE
  /\ Ahead(m.q, m.w) = Cardinality(Loading(m)) % PLANNER_BUFFER_POOL_SIZE
IsPrefix(s, t) == Len(s) <= Len(t) /\ \A i \in 1 .. Len(s) : s[i] = t[i]
\* The pool as mp_init_buffers constructs it, written out.
ConstructedPool ==
  [bf |-> [i \in Buffers |->
             [nx |-> (i + 1) % PLANNER_BUFFER_POOL_SIZE,
              pv |-> (i + PLANNER_BUFFER_POOL_SIZE - 1) % PLANNER_BUFFER_POOL_SIZE,
              buffer_state |-> MP_BUFFER_EMPTY, move_type |-> MOVE_TYPE_NULL,
              move_state |-> MOVE_OFF, bf_func |-> FN_NULL, cm_func |-> FN_NULL,
              payload |-> 0]],
   w |-> 0, q |-> 0, r |-> 0, buffers_available |-> PLANNER_BUFFER_POOL_SIZE]

\* C1: in every state reached by get, unget (after an uncommitted get), commit (the
\* buffer at q Loading), get run, free run (after get run returned a buffer) and flush,
\* buffers_available plus the number of Loading, Queued, Pending and Running buffers
\* is the capacity.
C1_CounterInvariant == CounterHolds(mb)

\* A step of mp_get_write_buffer: it returns a buffer exactly when the buffer at w was
\* Empty; a call that returns none changes nothing.
C2_GetStep ==
  lastOp' = "mp_get_write_buffer" =>
    /\ (lastRet' # NULL) <=> (mb.bf[mb.w].buffer_state = MP_BUFFER_EMPTY)
    /\ lastRet' # NULL =>
         /\ lastRet' = mb.w
         /\ mb'.bf[lastRet'].buffer_state = MP_BUFFER_LOADING
         /\ mb'.buffers_available = Dec8(mb.buffers_available)
    /\ lastRet' = NULL => mb' = mb
\* Before any commit or flush: the k buffers got are 0 .. k-1, Loading, the others
\* Empty, and after capacity gets the buffer at w is not Empty.
C2_FromInit ==
  (hist.n = 0 /\ ~hist.flushed) =>
    LET k == Len(outstanding)
    IN  /\ k <= PLANNER_BUFFER_POOL_SIZE
        /\ \A i \in 1 .. k : outstanding[i] = i - 1
        /\ \A b \in Buffers :
             mb.bf[b].buffer_state = IF b < k THEN MP_BUFFER_LOADING ELSE MP_BUFFER_EMPTY
        /\ mb.buffers_available = PLANNER_BUFFER_POOL_SIZE - k
        /\ mb.w = k % PLANNER_BUFFER_POOL_SIZE /\ mb.q = 0 /\ mb.r = 0
        /\ k = PLANNER_BUFFER_POOL_SIZE => mb.bf[mb.w].buffer_state # MP_BUFFER_EMPTY
\* C2: mp_get_write_buffer succeeds if and only if the buffer at the write cursor is
\* Empty; from planner_init, capacity consecutive gets with no commit and no free each
\* return a different buffer, now Loading, and the next get returns none and leaves
\* every buffer state, the three cursors and buffers_available unchanged.
C2_GetWriteBuffer == [][C2_GetStep]_vars /\ []C2_FromInit
\* Capacity gets from planner_init, and the next one returned none.
C2_Witness ==
  /\ lastOp = "mp_get_write_buffer" /\ lastRet = NULL
  /\ hist.n = 0 /\ ~hist.flushed
  /\ Len(outstanding) = PLANNER_BUFFER_POOL_SIZE

\* A step of mp_unget_write_buffer: right after a get it restores the pool the get
\* found; it always empties the most recently got outstanding buffer and moves w
\* back onto it, touching nothing else but the counter.
C3_UngetStep ==
  lastOp' = "mp_unget_write_buffer" =>
    /\ snap # << >> => View(mb') = snap[1]
    /\ outstanding # << >> =>
         LET b == outstanding[Len(outstanding)]
         IN  /\ mb'.w = b
             /\ mb'.bf[b].buffer_state = MP_BUFFER_EMPTY
             /\ \A i \in Buffers \ {b} : mb'.bf[i].buffer_state = mb.bf[i].buffer_state
             /\ mb'.q = mb.q /\ mb'.r = mb.r
             /\ mb'.buffers_available = Inc8(mb.buffers_available)
\* C3: mp_unget_write_buffer exactly reverses the most recent uncommitted get: after
\* get then unget, w, q, r, buffers_available and every buffer's state are what they
\* were before the get; with k outstanding gets, k ungets release the buffers in
\* reverse (LIFO) order of acquisition.
C3_UngetReversesGet == [][C3_UngetStep]_vars
\* An unget with another got buffer still outstanding behind it.
C3_Witness ==
  /\ lastOp = "mp_unget_write_buffer"
  /\ Len(outstanding) >= 1
  /\ mb.bf[mb.w].buffer_state = MP_BUFFER_EMPTY

\* C4: absent flush, the buffers mp_get_run_buffer newly promotes to Running are, in
\* order, exactly the buffers committed by mp_commit_write_buffer: none skipped, none
\* reordered, none run again after it was freed, across ring wrap-around.
C4_CommitOrder == ~hist.flushed => IsPrefix(hist.runs, hist.commits)
\* Every commit of a run that wrapped the ring has been promoted.
C4_Witness ==
  /\ ~hist.flushed
  /\ Len(hist.runs) = PLANNER_BUFFER_POOL_SIZE + 1
  /\ hist.runs = hist.commits

\* The move type each committing operation commits with.
KindOf(op) ==
  IF op = "mp_queue_command" THEN MOVE_TYPE_COMMAND
  ELSE IF op = "mp_dwell" THEN MOVE_TYPE_DWELL
  ELSE MOVE_TYPE_ALINE
\* What the exec request of the last commit found: the committed buffer Queued with
\* its move type, q one past it.
C5_RequestOrder ==
  ev.req.made =>
    /\ ev.req.state = MP_BUFFER_QUEUED
    /\ ev.req.type = KindOf(lastOp)
    /\ ev.req.q = (ev.req.bf + 1) % PLANNER_BUFFER_POOL_SIZE
\* The last operation was a commit whose request ran the committed dwell and freed it.
FreedInsideCommit ==
  /\ ev.req.made
  /\ ev.st_dwell # 0
  /\ mb.r = ev.req.q
  /\ mb.bf[ev.req.bf].buffer_state = MP_BUFFER_EMPTY
\* C5: mp_commit_write_buffer requests the exec only after the buffer at q is Queued
\* with its move type and q has advanced; when the consumer ran and freed that buffer
\* inside the request, the pool is consistent when the commit returns (counter
\* invariant and cursor order) and the freed buffer carries nothing written by
\* mp_queue_command or mp_dwell after their commit.
C5_CommitThenRequest ==
  /\ C5_RequestOrder
  /\ FreedInsideCommit =>
       /\ CounterHolds(mb)
       /\ CursorOrder(mb)
       /\ mb.bf[ev.req.bf] = mp_clear_buffer(mb.bf[ev.req.bf])

\* A step of mp_get_run_buffer: r and the counter stay; a returned buffer is the one at
\* r and is Running; on a Running buffer the call returns it and changes nothing.
C6_GetRunStep ==
  lastOp' = "mp_get_run_buffer" =>
    /\ mb'.r = mb.r
    /\ mb'.buffers_available = mb.buffers_available
    /\ lastRet' # NULL =>
         lastRet' = mb'.r /\ mb'.bf[mb'.r].buffer_state = MP_BUFFER_RUNNING
    /\ mb.bf[mb.r].buffer_state = MP_BUFFER_RUNNING => (lastRet' = mb.r /\ mb' = mb)
\* C6: mp_get_run_buffer is idempotent while a buffer is Running: consecutive calls
\* with no free and no flush between them return the same buffer, Running after each
\* call, and leave r and buffers_available unchanged.
C6_GetRunIdempotent == [][C6_GetRunStep]_vars
\* The consumer asked again for the buffer it was already running.
C6_Witness ==
  /\ lastOp = "mp_get_run_buffer"
  /\ lastRet = mb.r /\ run_bf = mb.r
  /\ mb.bf[mb.r].buffer_state = MP_BUFFER_RUNNING
  /\ ~ev.promoted

\* A step taken with the buffer at r Empty or Loading: mp_get_run_buffer returns none
\* and the executor's attempt does nothing.
C7_EmptyRunStep ==
  mb.bf[mb.r].buffer_state \in {MP_BUFFER_EMPTY, MP_BUFFER_LOADING} =>
    /\ lastOp' = "mp_get_run_buffer" => (lastRet' = NULL /\ mb' = mb /\ run_bf' = run_bf)
    /\ lastOp' = "mp_exec_move" => (mb' = mb /\ run_bf' = run_bf /\ st_bf' = st_bf)
\* C7: mp_get_run_buffer returns none and changes no state whenever the buffer at r is
\* neither Queued, Pending nor Running; it never returns or promotes a buffer that is
\* Empty or still Loading.
C7_NoRunBufferWhenEmpty == [][C7_EmptyRunStep]_vars
\* The producer holds the buffer at r, still Loading, and the consumer asked for it.
C7_Witness ==
  /\ lastOp = "mp_get_run_buffer" /\ lastRet = NULL
  /\ mb.bf[mb.r].buffer_state = MP_BUFFER_LOADING

\* A step of mp_free_run_buffer on the Running buffer.
C8_FreeStep ==
  (lastOp' = "mp_free_run_buffer" /\ mb.bf[mb.r].buffer_state = MP_BUFFER_RUNNING) =>
    /\ (lastRet' # 0) <=> (Active(mb') = {})
    /\ lastRet' # 0 =>
         (mb'.w = mb'.r /\ mb'.buffers_available = PLANNER_BUFFER_POOL_SIZE)
    /\ mb.bf[mb.bf[mb.r].nx].buffer_state = MP_BUFFER_QUEUED =>
         /\ lastRet' = 0
         /\ mb'.r = mb.bf[mb.r].nx
         /\ mb'.bf[mb'.r].buffer_state = MP_BUFFER_PENDING
    /\ mb'.bf[mb.r].buffer_state = MP_BUFFER_EMPTY
C9_FullStep ==
  (lastOp' \in {"mp_queue_command", "mp_dwell"}
     /\ mb.bf[mb.w].buffer_state # MP_BUFFER_EMPTY) =>
    /\ ev'.alarm = STAT_BUFFER_FULL_FATAL
    /\ mb' = mb
    /\ run_bf' = run_bf /\ st_bf' = st_bf /\ cm' = cm
    /\ hist' = hist
    /\ ~ev'.req.made /\ ~ev'.promoted /\ ~ev'.cycle_end
    /\ ev'.cm_exec = 0 /\ ev'.st_dwell = 0
\* C9: when mp_get_write_buffer returns none, mp_queue_command and mp_dwell raise the
\* fatal alarm STAT_BUFFER_FULL_FATAL and do nothing else: no buffer changes state, no
\* cursor moves, buffers_available is unchanged, nothing is committed and no exec
\* request is made.
C9_FullIsFatal == [][C9_FullStep]_vars
\* A command was refused on a full pool.
C9_Witness ==
  /\ lastOp = "mp_queue_command"
  /\ ev.alarm = STAT_BUFFER_FULL_FATAL
  /\ Cardinality(Active(mb)) = PLANNER_BUFFER_POOL_SIZE

\* C10: after mp_flush_planner, whatever the pool held, the pool is the one
\* mp_init_buffers constructs (every buffer zeroed and Empty, ring links in place,
\* w = q = r = bf[0], buffers_available the capacity), as after planner_init; the arc
\* was aborted and the motion state is MOTION_STOP.
C10_FlushIsInit ==
  /\ lastOp \in {"planner_init", "mp_flush_planner"} => mb = ConstructedPool
  /\ lastOp = "mp_flush_planner" => (ev.abort_arc /\ cm.motion_state = MOTION_STOP)
\* A flush while the consumer held the buffer it was running.
C10_Witness ==
  /\ lastOp = "mp_flush_planner"
  /\ run_bf # NULL \/ st_bf # NULL

\* The calls of pool functions the last operation made.
Calls == {ev.trail[i] : i \in 1 .. Len(ev.trail)}
\* The state changes of the buffer lifecycle.
Lifecycle ==
  {<<MP_BUFFER_EMPTY, MP_BUFFER_LOADING>>, <<MP_BUFFER_LOADING, MP_BUFFER_QUEUED>>,
   <<MP_BUFFER_QUEUED, MP_BUFFER_PENDING>>, <<MP_BUFFER_QUEUED, MP_BUFFER_RUNNING>>,
   <<MP_BUFFER_PENDING, MP_BUFFER_RUNNING>>, <<MP_BUFFER_RUNNING, MP_BUFFER_EMPTY>>}
\* A call that changed buffer states changed them along the lifecycle, or from Loading
\* to Empty in mp_unget_write_buffer.
LifecycleCall(e) ==
  \A t \in e.ch :
    t[1] # t[2] =>
      \/ <<t[1], t[2]>> \in Lifecycle
      \/ /\ e.op = "mp_unget_write_buffer"
         /\ t[1] = MP_BUFFER_LOADING /\ t[2] = MP_BUFFER_EMPTY
\* C11: every change of a buffer's state follows Empty, Loading, Queued, (Pending,)
\* Running, Empty; the only other change is Loading to Empty, made only by
\* mp_unget_write_buffer; no operation, flush and mp_free_run_buffer included, takes a
\* Queued or Pending buffer directly to Empty or moves a buffer backward.
C11_Lifecycle == \A e \in Calls : LifecycleCall(e)

\* C12: in every reachable state at most one buffer is Running, and a buffer that is
\* Running or Pending is the buffer at r (so at most one buffer is Pending, and
\* Running and Pending never coexist).
C12_OneRunning ==
  /\ Cardinality({b \in Buffers : mb.bf[b].buffer_state = MP_BUFFER_RUNNING}) <= 1
  /\ \A b \in Buffers :
       mb.bf[b].buffer_state \in {MP_BUFFER_RUNNING, MP_BUFFER_PENDING} => b = mb.r
\* A Pending buffer at r behind which another buffer is Queued, after a flush and a
\* consumer's free of the buffer it held across it.
C12_Witness ==
  /\ mb.bf[mb.r].buffer_state = MP_BUFFER_PENDING
  /\ mb.bf[mb.bf[mb.r].nx].buffer_state = MP_BUFFER_QUEUED
  /\ hist.flushed

\* C13: mp_queue_command stores the values by value: mp_runtime_command calls the
\* stored callback with exactly the values passed at queue time, and calls it exactly
\* once per queued command.
C13_CopyCalledOnce ==
  ev.cm_exec # 0 => (ev.cm_exec = ev.cm_queued /\ ~ev.cm_again)

\* What a step that is a flush leaves alone.
C14_FlushStep ==
  lastOp' = "mp_flush_planner" =>
    /\ mm' = mm
    /\ mr' = mr
    /\ en' = en /\ st_pre' = st_pre
    /\ run_bf' = run_bf /\ st_bf' = st_bf
    /\ ev'.alarm = STAT_OK /\ ev'.cm_exec = 0 /\ ev'.st_dwell = 0
    /\ ~ev'.cycle_end /\ ~ev'.req.made
\* C14: mp_flush_planner leaves the planner position and the runtime position, target
\* and endpoint (and the step state) exactly as they were; only the buffer pool, the
\* arc generation and the motion state change.
C14_FlushKeepsPositions == [][C14_FlushStep]_vars
\* A flush with buffers in the pool, taken with positions and step state set.
C14_Witness ==
  /\ lastOp = "mp_flush_planner"
  /\ mm.position[AXIS_X] # 0 /\ mr.position[AXIS_X] # 0
  /\ mr.target[AXIS_X] # 0 /\ mr.endpoint[AXIS_X] # 0
  /\ mr.position_steps[0] # 0 /\ mr.following_error[0] # 0
  /\ cm.motion_state = MOTION_STOP

\* C15: the counter invariant under preemption: when mp_free_run_buffer runs in the
\* interrupt between any two steps of the foreground's mp_get_write_buffer or
\* mp_unget_write_buffer (between the load and the store of buffers_available
\* included), no update is lost: once both have completed, buffers_available is the
\* capacity minus the number of non-Empty buffers.
C15_NoLostUpdate == prod.pc = "idle" => CounterHolds(mb)

\* The frees made by mp_runtime_command and _exec_dwell in the last operation.
HandlerFrees ==
  {e \in Calls : e.op = "mp_free_run_buffer" /\ e.by \in {"mp_runtime_command", "_exec_dwell"}}
\* C16: mp_runtime_command and _exec_dwell signal cycle end if and only if their
\* mp_free_run_buffer emptied the pool: never with a buffer Loading, Queued, Pending or
\* Running, and every time the last active buffer is freed, also when the handler
\* preempts the foreground between the steps of mp_get_write_buffer or
\* mp_commit_write_buffer.
C16_CycleEndIffEmpty == \A e \in HandlerFrees : ev.cycle_end <=> e.idle

ProducerOps == {"mp_get_write_buffer", "mp_unget_write_buffer", "mp_commit_write_buffer"}
ConsumerOps == {"mp_get_run_buffer", "mp_free_run_buffer"}
\* What the cursor discipline asks of a call of a consumer function, and of a producer
\* function apart from where it may move w.
DisciplineCall(e) ==
  /\ e.op \in ProducerOps =>
       /\ e.q # "back"
       /\ e.r = "same"
       /\ \A t \in e.ch :
            t[1] \notin {MP_BUFFER_QUEUED, MP_BUFFER_PENDING, MP_BUFFER_RUNNING}
  /\ e.op \in ConsumerOps =>
       /\ e.w = "same" /\ e.q = "same"
       /\ \A t \in e.ch :
            t[3] = "r" \/ (e.op = "mp_free_run_buffer" /\ t[3] = "rnx")
  /\ e.op \in ProducerOps \cup ConsumerOps =>
       /\ e.q = (IF e.op = "mp_commit_write_buffer" THEN "fwd" ELSE "same")
       /\ e.r = (IF e.op = "mp_free_run_buffer" THEN "fwd" ELSE "same")
\* C17: no producer operation (get, unget, commit) ever moves w or q
\* backward, changes r, or modifies a buffer that is Queued, Pending or Running; no
\* consumer operation (get run, free run) changes w or q or modifies a buffer other
\* than the one at r; q changes only in commit and r only in free, each by one step
\* forward.
C17_CursorDiscipline ==
  \A e \in Calls : DisciplineCall(e) /\ (e.op \in ProducerOps => e.w # "back")

\* How many buffers forward of r buffer b lies.
FromRun(m, b) == (b + PLANNER_BUFFER_POOL_SIZE - m.r) % PLANNER_BUFFER_POOL_SIZE
\* Walking forward from r: first the Queued, Pending and Running buffers, up to q,
\* then the Loading buffers, up to w, then Empty buffers only.
RingLayout(m) ==
  LET nv == Cardinality(Visible(m))
      nl == Cardinality(Loading(m))
  IN  /\ \A b \in Buffers :
           IF FromRun(m, b) < nv THEN b \in Visible(m)
           ELSE IF FromRun(m, b) < nv + nl THEN b \in Loading(m)
           ELSE m.bf[b].buffer_state = MP_BUFFER_EMPTY
      /\ m.q = (m.r + nv) % PLANNER_BUFFER_POOL_SIZE
      /\ m.w = (m.r + nv + nl) % PLANNER_BUFFER_POOL_SIZE
\* C18: in every state reachable under the usage discipline, walking the ring forward
\* from r, the buffers from r up to q are exactly the Queued, Pending and Running
\* ones, the buffers from q up to w exactly the Loading ones, and every other buffer
\* is Empty, across wrap-around and when the pool is full.
C18_RingLayout == RingLayout(mb)

\* C19: every mp_free_run_buffer made by mp_runtime_command or _exec_dwell acts on a
\* buffer that is Running and is the buffer the handler was given, also when
\* mp_flush_planner is called between _exec_command and mp_runtime_command;
\* consequently buffers_available never exceeds the capacity and r never moves past w.
C19_FreeActsOnRunning ==
  \A e \in HandlerFrees :
    /\ e.rs = MP_BUFFER_RUNNING
    /\ e.handed
    /\ ~e.over
    /\ CursorOrder(mb)

\* A buffer committed and not yet made Running.
Committed(b) == mb.bf[b].buffer_state \in {MP_BUFFER_QUEUED, MP_BUFFER_PENDING}
\* b is Running, or was made Running and freed by the handler in this very step.
Run(b) ==
  \/ mb.bf[b].buffer_state = MP_BUFFER_RUNNING
  \/ ev.promoted /\ \E e \in Calls : e.op = "mp_get_run_buffer" /\ e.ret = b
ProducerStopped == prod.pc = "idle" /\ outstanding = << >>
CycleEndSignalled ==
  \/ ev.cycle_end
  \/ lastOp = "mp_free_run_buffer" /\ lastRet = 1
Drained ==
  /\ \A b \in Buffers : mb.bf[b].buffer_state = MP_BUFFER_EMPTY
  /\ mb.buffers_available = PLANNER_BUFFER_POOL_SIZE
  /\ CycleEndSignalled
\* C20: with no flush and a consumer that keeps being scheduled, every committed
\* buffer (Queued or Pending, whether or not r already pointed at it when it was
\* committed) eventually is made Running and every Running buffer eventually Empty;
\* and once the producer has stopped with no Loading buffer outstanding, the pool
\* eventually is all Empty with buffers_available equal to the capacity, the free that
\* emptied it signalling the cycle end.
C20_Liveness ==
  /\ \A b \in Buffers : Committed(b) ~> Run(b)
  /\ \A b \in Buffers :
       (mb.bf[b].buffer_state = MP_BUFFER_RUNNING) ~> (mb.bf[b].buffer_state = MP_BUFFER_EMPTY)
  /\ (Visible(mb) # {}) ~> (~ProducerStopped \/ Drained)

\* The step state of motor m is that of step count steps: no following error, no
\* correction pending.
StepsAre(m, steps) ==
  /\ mr.target_steps[m] = steps
  /\ mr.position_steps[m] = steps
  /\ mr.commanded_steps[m] = steps
  /\ en[m].encoder_steps = steps
  /\ mr.following_error[m] = 0
  /\ st_pre.mot[m].corrected_steps = 0
C21_StepsStep ==
  lastOp' = "mp_set_steps_to_runtime_position" =>
    /\ \A m \in Motors : StepsAre(m, ik_kinematics(mr.position, motor)[m])'
    /\ mr'.position = mr.position
    /\ mm' = mm
\* C21: after mp_set_steps_to_runtime_position, for every motor and whatever the prior
\* values, the following error and the pending step correction are 0, and target,
\* position and commanded steps all equal the steps ik_kinematics gives for the runtime
\* position, which is also the value written to the motor's encoder register; the
\* runtime and the planner position are unchanged.
C21_StepsSetToRuntimePosition == [][C21_StepsStep]_vars
\* The steps were set with every motor drifted off a runtime position that is not zero
\* on any axis, the planner position set too.
C21_Witness ==
  /\ lastOp = "mp_set_steps_to_runtime_position"
  /\ \A axis \in Axes : mr.position[axis] # 0
  /\ mm.position # ZeroMM.position
  /\ \A m \in Motors : StepsAre(m, ik_kinematics(mr.position, motor)[m])
  /\ \A m \in Motors : mr.target_steps[m] # 0

\* The motors configured for axis, and the lowest-numbered of them, -1 when there is none.
MotorsOf(axis) == {m \in Motors : motor_get_axis(motor, m) = axis}
LowestMotorOf(axis) ==
  IF MotorsOf(axis) = {} THEN 0 - 1
  ELSE CHOOSE m \in MotorsOf(axis) : \A n \in MotorsOf(axis) : m <= n
\* C22: after every call of axis_map_motors, for every axis, axis_get_motor(axis) is
\* the lowest-numbered motor whose configured axis is that axis, and -1 when no motor
\* is configured for it, also when axis_map_motors is called again after the motor
\* configuration changed: an axis that lost its motor is unmapped, its velocity,
\* acceleration and jerk limits read 0 and axis_is_enabled is false.
C22_MapIsFirstMatch ==
  lastOp = "axis_map_motors" =>
    \A axis \in Axes :
      /\ axis_get_motor(motor_map, axis) = LowestMotorOf(axis)
      /\ MotorsOf(axis) = {} =>
           /\ axis_get_velocity_max(motor_map, axes, axis) = 0
           /\ axis_get_accel_max(motor_map, axes, axis) = 0
           /\ axis_get_jerk_max(motor_map, axes, axis) = 0
           /\ ~axis_is_enabled(motor_map, axes, motor, axis)

====
